---- MODULE Spec2Model ----
(***************************************************************************)
(* Ride booking and payment reconciliation server (server/server.js) over  *)
(* the relational schema of the repository (rides, ride_participants,      *)
(* payments, ride_codes, notifications, history).                          *)
(*                                                                         *)
(* Every request handler is an async function: it runs without interruption*)
(* up to an `await` of a store or provider call, and other handlers run    *)
(* between two awaits.  Each action below is one such segment: the store   *)
(* call that ends it, together with the local computation around it.       *)
(* The store client reports a failed call in the `error` field of its      *)
(* result and does not throw; a call whose result the code does not        *)
(* inspect therefore fails silently.                                       *)
(***************************************************************************)
EXTENDS Integers, FiniteSets, Sequences, TLC

\* ------------------------------------------------------------ bounds
MaxRequests == 4      \* requests served (create, join, poll, webhook)
MaxInFlight == 2      \* requests being served at the same time
MaxFaults == 1        \* store calls that fail
MaxLength == 2        \* length asked of generateRideCode
Resolution == 36      \* Math.random() returns k / Resolution, 0 <= k < Resolution

Slots == 1..MaxInFlight          \* handlers of one kind running at the same time
Users == {"u1", "u2"}
Riders == Users \cup {"u3"}      \* the users of the specification of three joins
NoUser == "none"
RideIds == 1..2                  \* ids the store gives to rides
NoRide == 0
SessionIds == 1..1               \* ids the provider gives to sessions (checkout requests)
Creators == {"u1"}               \* users that create rides
SeatChoices == {0, 1, 2}         \* totalSeats of a create request (0: missing)
PriceChoices == {500}            \* pricePerSeat of a create request
AmountChoices == {0}             \* amountDue of a join request (0: not supplied)
RequestedAmounts == {0, 300}     \* the same, of join requests that may name an amount
CheckoutAmounts == {500}         \* amount of a checkout request
Codes == {"AAAAAA", "BBBBBB"}    \* results of generateRideCode in the handlers, abbreviated
NoRow == [none |-> TRUE]

VARIABLES
    rides,              \* table rides: ride id -> row or NoRow
    ride_participants,  \* table ride_participants: set of rows
    payments,           \* table payments: session id -> row or NoRow
    ride_codes,         \* table ride_codes: set of rows
    notifications,      \* table notifications: number of rows per <<user, type>>
    history,            \* table history: number of rows per <<user, action>>
    stripe,             \* the provider's sessions: session id -> session or NoRow
    cr,                 \* POST /api/rides/create handlers in flight
    jn,                 \* POST /api/rides/join handlers in flight
    pl,                 \* GET /api/stripe/session/:sessionId handlers in flight
    wh,                 \* POST /api/stripe/webhook handlers in flight
    response,           \* the response sent last
    faults,             \* store calls that have failed so far
    requests,           \* requests served so far
    gen                 \* a call of generateRideCode: its arguments and its result

db == <<rides, ride_participants, payments, ride_codes, notifications, history>>
vars == <<rides, ride_participants, payments, ride_codes, notifications, history,
          stripe, cr, jn, pl, wh, response, faults, requests, gen>>

NotifTypes == {"ride_created", "ride_joined", "payment_received"}
HistoryActions == {"payment"}

\* a store call either succeeds (ok) or fails; at most MaxFaults calls fail
CanFail(oks) == faults + Cardinality({i \in DOMAIN oks : ~oks[i]}) <= MaxFaults
Failing(oks) == faults' = faults + Cardinality({i \in DOMAIN oks : ~oks[i]})

\* the handlers between their first and their last store call
Busy(h) == {i \in Slots : h[i].pc # "idle"}
InFlight == Cardinality(Busy(cr)) + Cardinality(Busy(jn))
            + Cardinality(Busy(pl)) + Cardinality(Busy(wh))

\* handler i of its kind can take a request
Free(h, i) ==
    /\ requests < MaxRequests /\ InFlight < MaxInFlight
    /\ h[i].pc = "idle" /\ \A k \in Slots : k < i => h[k].pc # "idle"

\* a request arrives and is served by handler i of its kind
Arrives(h, i) == Free(h, i) /\ requests' = requests + 1

\* ------------------------------------------------------------ responses
NoResponse == [op |-> "none", status |-> "none", seen |-> 0, row |-> 0,
               updated |-> FALSE, sig |-> "none", sid |-> 0, type |-> "none"]

\* res.status(...).json(...) of a handler
Respond(op, status, h) ==
    [op |-> op, status |-> status, seen |-> h.seen, row |-> h.row,
     updated |-> h.updated, sig |-> h.sig, sid |-> h.sid, type |-> h.type]

IsError(status) == status \notin {"none", "200 success", "200 completed",
                                  "200 received", "200 unpaid"}

\* ------------------------------------------------------------ notifications, history
\* createNotification: one insert, its failure is neither thrown nor reported
createNotification(userId, type, ok) ==
    notifications' = IF ok
        THEN [notifications EXCEPT ![<<userId, type>>] = @ + 1]
        ELSE notifications

\* logUserAction: one insert, its failure is neither thrown nor reported
logUserAction(userId, action, ok) ==
    history' = IF ok
        THEN [history EXCEPT ![<<userId, action>>] = @ + 1]
        ELSE history

\* createHistoryEntry is called by the create and join handlers and defined
\* nowhere: evaluating the call throws a ReferenceError, which the handler's
\* catch turns into its 500 response
createHistoryEntryDefined == FALSE

\* ------------------------------------------------------------ initial state
\* the locals of a handler; row is the id of the participant row it works on
Idle == [pc |-> "idle", ride |-> NoRide, user |-> NoUser, amt |-> 0, seen |-> 0,
         price |-> 0, row |-> 0, updated |-> FALSE, sid |-> 0, sig |-> "none",
         type |-> "none", due |-> 0, code |-> "", late |-> FALSE,
         status |-> "none"]

NoCall == [pc |-> "none", length |-> 0, random |-> <<>>, code |-> <<>>]

Init ==
    /\ rides = [r \in RideIds |-> NoRow]
    /\ ride_participants = {}
    /\ payments = [s \in SessionIds |-> NoRow]
    /\ ride_codes = {}
    /\ notifications = [k \in Riders \X NotifTypes |-> 0]
    /\ history = [k \in Riders \X HistoryActions |-> 0]
    /\ stripe = [s \in SessionIds |-> NoRow]
    /\ cr = [i \in Slots |-> Idle]
    /\ jn = [i \in Slots |-> Idle]
    /\ pl = [i \in Slots |-> Idle]
    /\ wh = [i \in Slots |-> Idle]
    /\ response = NoResponse
    /\ faults = 0
    /\ requests = 0
    /\ gen = NoCall

\* ------------------------------------------------------------ code generator
\* const chars; a string is the sequence of its characters
chars == <<"A", "B", "C", "D", "E", "F", "G", "H", "I", "J", "K", "L", "M",
           "N", "O", "P", "Q", "R", "S", "T", "U", "V", "W", "X", "Y", "Z",
           "0", "1", "2", "3", "4", "5", "6", "7", "8", "9">>

\* the values of Math.random(), as the numerators k of k / Resolution
RandomValues == 0..(Resolution - 1)

\* str.charAt(index): the empty string when index is out of range
charAt(str, index) == IF index + 1 \in DOMAIN str THEN <<str[index + 1]>> ELSE <<>>

\* Math.floor(Math.random() * chars.length), for Math.random() = k / Resolution
RandomIndexCeil(k) == ((k * Len(chars)) \div Resolution) + 1
RandomIndex(k) == (k * Len(chars)) \div Resolution

\* generateRideCode(length): the loop for (i = 0; i < length; i++), random[i + 1]
\* being the value of Math.random() in iteration i
generateRideCode(length, random) ==
    LET RECURSIVE loop(_, _)
        loop(i, code) ==
            IF i < length
            THEN loop(i + 1, code \o charAt(chars, RandomIndex(random[i + 1])))
            ELSE code
    IN loop(0, <<>>)

\* a call of generateRideCode(length)
GenerateCall(length, random) ==
    /\ gen.pc = "none"
    /\ gen' = [pc |-> "call", length |-> length, random |-> random, code |-> <<>>]
    /\ UNCHANGED <<db, stripe, cr, jn, pl, wh, response, faults, requests>>

\* its return
GenerateReturn ==
    /\ gen.pc = "call"
    /\ gen' = [gen EXCEPT !.pc = "done",
                          !.code = generateRideCode(gen.length, gen.random)]
    /\ UNCHANGED <<db, stripe, cr, jn, pl, wh, response, faults, requests>>

\* ------------------------------------------------------------ POST /api/rides/create
\* the unique constraint on rides.ride_code
RideCodeTaken(code) == \E r \in RideIds : rides[r] # NoRow /\ rides[r].ride_code = code

\* the unique constraints on ride_codes.ride_id and ride_codes.code
RideCodesConflict(rideId, code) ==
    \E row \in ride_codes : row.ride_id = rideId \/ row.code = code

\* the id the store gives to the next ride
NextRideId(r) == rides[r] = NoRow /\ \A k \in RideIds : k < r => rides[k] # NoRow

\* validation, generateRideCode(6) and the insert into rides
CreateInsert(c, r, userId, totalSeats, pricePerSeat, rideCode, ok) ==
    /\ Arrives(cr, c) /\ NextRideId(r)
    /\ IF userId = NoUser \/ totalSeats = 0
       THEN /\ ok
            /\ response' = Respond("create", "400 Missing required fields", Idle)
            /\ UNCHANGED <<rides, cr, faults>>
       ELSE /\ CanFail(<<ok>>) /\ Failing(<<ok>>)
            /\ IF ~ok \/ RideCodeTaken(rideCode)
               THEN /\ response' = Respond("create", "500 Failed to create ride", Idle)
                    /\ UNCHANGED <<rides, cr>>
               ELSE /\ rides' = [rides EXCEPT ![r] =
                            [total_seats |-> totalSeats, seats_left |-> totalSeats,
                             price_per_seat |-> pricePerSeat, ride_code |-> rideCode,
                             status |-> "active"]]
                    /\ cr' = [cr EXCEPT ![c] = [Idle EXCEPT !.pc = "codes", !.ride = r,
                                                 !.user = userId, !.code = rideCode]]
                    /\ UNCHANGED response
    /\ UNCHANGED <<ride_participants, payments, ride_codes, notifications, history,
                   stripe, jn, pl, wh>>

\* the insert into ride_codes; its error is not inspected
CreateCodes(c, ok) ==
    /\ cr[c].pc = "codes"
    /\ CanFail(<<ok>>) /\ Failing(<<ok>>)
    /\ ride_codes' = IF ok /\ ~RideCodesConflict(cr[c].ride, cr[c].code)
                     THEN ride_codes \cup {[ride_id |-> cr[c].ride, code |-> cr[c].code]}
                     ELSE ride_codes
    /\ cr' = [cr EXCEPT ![c].pc = "tail"]
    /\ UNCHANGED <<rides, ride_participants, payments, notifications, history,
                   stripe, jn, pl, wh, response, requests>>

\* createNotification, createHistoryEntry and the response
CreateTail(c, ok) ==
    /\ cr[c].pc = "tail"
    /\ CanFail(<<ok>>) /\ Failing(<<ok>>)
    /\ createNotification(cr[c].user, "ride_created", ok)
    /\ response' = Respond("create", IF createHistoryEntryDefined THEN "200 success"
                                     ELSE "500 Failed to create ride", cr[c])
    /\ cr' = [cr EXCEPT ![c] = Idle]
    /\ UNCHANGED <<rides, ride_participants, payments, ride_codes, history,
                   stripe, jn, pl, wh, requests>>

\* ------------------------------------------------------------ the owner of a ride
\* rides.status: active, completed, cancelled
FinalStatuses == {"completed", "cancelled"}

\* the owner updates the row of its ride (policy "Users can update own rides"):
\* the ride is completed or cancelled
UpdateOwnRide(r, status) ==
    /\ rides[r] # NoRow /\ rides[r].status = "active"
    /\ rides' = [rides EXCEPT ![r].status = status]
    /\ UNCHANGED <<ride_participants, payments, ride_codes, notifications, history,
                   stripe, cr, jn, pl, wh, response, faults, requests, gen>>

\* ------------------------------------------------------------ POST /api/rides/join
\* the check of the ride row read at the start of the handler
SeatsAvailableOffByOne(rideData) == ~(rideData.seats_left < 0)
SeatsAvailable(rideData) == ~(rideData.seats_left <= 0)

\* the unique constraint (ride_id, user_id) of ride_participants
AlreadyJoinedUnchecked(rideId, userId) == FALSE
AlreadyJoined(rideId, userId) ==
    \E row \in ride_participants : row.ride_id = rideId /\ row.user_id = userId

\* amountDue || rideData.price_per_seat
AmountDue(amountDue, price) == IF amountDue # 0 THEN amountDue ELSE price

\* the id the store gives to the next participant row
NextParticipantId == Cardinality(ride_participants) + 1

\* validation, the select of the ride and the seats check
JoinSelect(j, rideId, userId, amountDue, ok) ==
    /\ Arrives(jn, j)
    /\ LET req == [Idle EXCEPT !.ride = rideId, !.user = userId, !.amt = amountDue]
       IN IF rideId = NoRide \/ userId = NoUser
          THEN /\ ok
               /\ response' = Respond("join", "400 Missing required fields", Idle)
               /\ UNCHANGED <<jn, faults>>
          ELSE /\ CanFail(<<ok>>) /\ Failing(<<ok>>)
               /\ IF ~ok \/ rides[rideId] = NoRow
                  THEN /\ response' = Respond("join", "404 Ride not found", Idle)
                       /\ UNCHANGED jn
                  ELSE IF ~SeatsAvailable(rides[rideId])
                  THEN /\ response' = Respond("join", "400 No seats available",
                              [req EXCEPT !.seen = rides[rideId].seats_left])
                       /\ UNCHANGED jn
                  ELSE /\ jn' = [jn EXCEPT ![j] = [req EXCEPT !.pc = "insert",
                              !.seen = rides[rideId].seats_left,
                              !.price = rides[rideId].price_per_seat,
                              !.status = rides[rideId].status]]
                       /\ UNCHANGED response
    /\ UNCHANGED <<db, stripe, cr, pl, wh>>

\* generateRideCode(8) and the insert into ride_participants
JoinInsert(j, ok) ==
    /\ jn[j].pc = "insert"
    /\ CanFail(<<ok>>) /\ Failing(<<ok>>)
    /\ IF ~ok \/ AlreadyJoined(jn[j].ride, jn[j].user)
       THEN /\ response' = Respond("join", "500 Failed to join ride", jn[j])
            /\ jn' = [jn EXCEPT ![j] = Idle]
            /\ UNCHANGED ride_participants
       ELSE /\ ride_participants' = ride_participants \cup
                  {[id |-> NextParticipantId, ride_id |-> jn[j].ride,
                    user_id |-> jn[j].user,
                    amount_due |-> AmountDue(jn[j].amt, jn[j].price),
                    amount_paid |-> 0, paid |-> FALSE, stripe_session_id |-> 0]}
            /\ jn' = [jn EXCEPT ![j].pc = "update", ![j].row = NextParticipantId]
            /\ UNCHANGED response
    /\ UNCHANGED <<rides, payments, ride_codes, notifications, history,
                   stripe, cr, pl, wh, requests>>

\* the update of rides.seats_left from the value read by JoinSelect; its error
\* is not inspected
JoinUpdate(j, ok) ==
    /\ jn[j].pc = "update"
    /\ CanFail(<<ok>>) /\ Failing(<<ok>>)
    /\ rides' = IF ok THEN [rides EXCEPT ![jn[j].ride].seats_left = jn[j].seen - 1]
                ELSE rides
    /\ jn' = [jn EXCEPT ![j].pc = "tail", ![j].updated = ok]
    /\ UNCHANGED <<ride_participants, payments, ride_codes, notifications, history,
                   stripe, cr, pl, wh, response, requests>>

\* createNotification, createHistoryEntry and the response
JoinTail(j, ok) ==
    /\ jn[j].pc = "tail"
    /\ CanFail(<<ok>>) /\ Failing(<<ok>>)
    /\ createNotification(jn[j].user, "ride_joined", ok)
    /\ response' = Respond("join", IF createHistoryEntryDefined THEN "200 success"
                                   ELSE "500 Failed to join ride", jn[j])
    /\ jn' = [jn EXCEPT ![j] = Idle]
    /\ UNCHANGED <<rides, ride_participants, payments, ride_codes, history,
                   stripe, cr, pl, wh, requests>>

\* ------------------------------------------------------------ POST /api/stripe/create-checkout-session
\* the id the provider gives to the next session
NextSessionId(s) == stripe[s] = NoRow /\ \A k \in SessionIds : k < s => stripe[k] # NoRow

\* validation, stripe.checkout.sessions.create, the insert into payments (its
\* error is not inspected; payments.ride_id references rides) and the response
Checkout(s, rideId, userId, amount, ok) ==
    /\ NextSessionId(s)
    /\ IF rideId = NoRide \/ userId = NoUser \/ amount = 0
       THEN /\ ok
            /\ response' = Respond("checkout", "400 Missing required parameters", Idle)
            /\ UNCHANGED <<stripe, payments, faults>>
       ELSE /\ CanFail(<<ok>>) /\ Failing(<<ok>>)
            /\ stripe' = [stripe EXCEPT ![s] =
                  [payment_status |-> "unpaid", status |-> "open",
                   rideId |-> rideId, userId |-> userId]]
            /\ payments' = IF ok /\ rides[rideId] # NoRow
                  THEN [payments EXCEPT ![s] =
                          [user_id |-> userId, ride_id |-> rideId, amount |-> amount,
                           status |-> "pending", stripe_payment_intent_id |-> 0]]
                  ELSE payments
            /\ response' = Respond("checkout", "200 success", [Idle EXCEPT !.sid = s])
    /\ UNCHANGED <<rides, ride_participants, ride_codes, notifications, history,
                   cr, jn, pl, wh, requests>>

\* ------------------------------------------------------------ the payment provider
\* the customer pays an open session
StripePay(s) ==
    /\ stripe[s] # NoRow /\ stripe[s].status = "open"
    /\ stripe' = [stripe EXCEPT ![s].status = "complete", ![s].payment_status = "paid"]
    /\ UNCHANGED <<db, cr, jn, pl, wh, response, faults, requests>>

\* an open session expires
StripeExpire(s) ==
    /\ stripe[s] # NoRow /\ stripe[s].status = "open"
    /\ stripe' = [stripe EXCEPT ![s].status = "expired"]
    /\ UNCHANGED <<db, cr, jn, pl, wh, response, faults, requests>>

\* ------------------------------------------------------------ settlement
\* select("*").eq("ride_id", rideId).eq("user_id", userId).single(): the row
\* when exactly one row matches and the call succeeds, else null
SelectParticipant(rideId, userId, ok) ==
    LET rows == {row \in ride_participants :
                    row.ride_id = rideId /\ row.user_id = userId}
    IN IF ok /\ Cardinality(rows) = 1 THEN rows ELSE {}

\* update({paid, stripe_session_id, amount_paid}).eq("id", participant.id)
MarkPaidNoAmount(id, sessionId, amountDue, ok) ==
    ride_participants' = IF ok
        THEN {IF row.id = id
              THEN [row EXCEPT !.paid = TRUE, !.stripe_session_id = sessionId]
              ELSE row : row \in ride_participants}
        ELSE ride_participants
MarkPaid(id, sessionId, amountDue, ok) ==
    ride_participants' = IF ok
        THEN {IF row.id = id
              THEN [row EXCEPT !.paid = TRUE, !.stripe_session_id = sessionId,
                               !.amount_paid = amountDue]
              ELSE row : row \in ride_participants}
        ELSE ride_participants

\* update({status: "completed", stripe_payment_intent_id}).eq("stripe_session_id", id)
CompletePayment(sessionId, ok) ==
    payments' = IF ok /\ payments[sessionId] # NoRow
        THEN [payments EXCEPT ![sessionId].status = "completed",
                              ![sessionId].stripe_payment_intent_id = sessionId]
        ELSE payments

\* the outcomes of upsert({ride_id, code}): the call names no conflict column,
\* so a row of the same ride is either merged into or makes the insert fail on
\* the unique ride_id; a code held by another ride fails on the unique code;
\* with no such row the new row is inserted.  The error is not inspected
UpsertOutcomes == {"merge", "reject"}
UpsertRideCode(rideId, code, outcome, ok) ==
    ride_codes' =
        IF ~ok \/ \E row \in ride_codes : row.ride_id # rideId /\ row.code = code
        THEN ride_codes
        ELSE IF \E row \in ride_codes : row.ride_id = rideId
        THEN IF outcome = "merge"
             THEN {row \in ride_codes : row.ride_id # rideId}
                      \cup {[ride_id |-> rideId, code |-> code]}
             ELSE ride_codes
        ELSE ride_codes \cup {[ride_id |-> rideId, code |-> code]}

\* some handler is working on the session
Settling(sessionId) ==
    \E i \in Slots : \/ pl[i].pc # "idle" /\ pl[i].sid = sessionId
                     \/ wh[i].pc # "idle" /\ wh[i].sid = sessionId

\* the session was settled before by a handler that has finished
AlreadySettled(sessionId) ==
    /\ payments[sessionId] # NoRow /\ payments[sessionId].status = "completed"
    /\ ~Settling(sessionId)

\* ------------------------------------------------------------ GET /api/stripe/session/:sessionId
\* session.payment_status === "paid"
SessionPaidAlways(session) == TRUE
SessionPaid(session) == session.payment_status = "paid"

\* stripe.checkout.sessions.retrieve and the select of the participant
PollSelect(p, sessionId, ok) ==
    /\ Arrives(pl, p)
    /\ LET req == [Idle EXCEPT !.sid = sessionId, !.type = "poll"]
       IN IF stripe[sessionId] = NoRow
          THEN /\ ok
               /\ response' = Respond("poll", "500 Failed to retrieve session", req)
               /\ UNCHANGED <<pl, faults>>
          ELSE IF ~SessionPaid(stripe[sessionId])
          THEN /\ ok
               /\ response' = Respond("poll", "200 " \o stripe[sessionId].payment_status,
                                       req)
               /\ UNCHANGED <<pl, faults>>
          ELSE /\ CanFail(<<ok>>) /\ Failing(<<ok>>)
               /\ LET found == SelectParticipant(stripe[sessionId].rideId,
                                                 stripe[sessionId].userId, ok)
                  IN IF found = {}
                     THEN /\ response' = Respond("poll", "200 completed", req)
                          /\ UNCHANGED pl
                     ELSE /\ \E row \in found :
                               pl' = [pl EXCEPT ![p] = [req EXCEPT !.pc = "paid",
                                   !.ride = row.ride_id, !.user = row.user_id,
                                   !.row = row.id, !.due = row.amount_due,
                                   !.late = AlreadySettled(sessionId)]]
                          /\ UNCHANGED response
    /\ UNCHANGED <<db, stripe, cr, jn, wh>>

\* the update of the participant
PollMarkPaid(p, ok) ==
    /\ pl[p].pc = "paid"
    /\ CanFail(<<ok>>) /\ Failing(<<ok>>)
    /\ MarkPaid(pl[p].row, pl[p].sid, pl[p].due, ok)
    /\ pl' = [pl EXCEPT ![p].pc = "payment"]
    /\ UNCHANGED <<rides, payments, ride_codes, notifications, history,
                   stripe, cr, jn, wh, response, requests>>

\* the update of the payment
PollCompletePayment(p, ok) ==
    /\ pl[p].pc = "payment"
    /\ CanFail(<<ok>>) /\ Failing(<<ok>>)
    /\ CompletePayment(pl[p].sid, ok)
    /\ pl' = [pl EXCEPT ![p].pc = "code"]
    /\ UNCHANGED <<rides, ride_participants, ride_codes, notifications, history,
                   stripe, cr, jn, wh, response, requests>>

\* generateRideCode(6) and the upsert into ride_codes
PollUpsert(p, rideCode, outcome, ok) ==
    /\ pl[p].pc = "code"
    /\ CanFail(<<ok>>) /\ Failing(<<ok>>)
    /\ UpsertRideCode(pl[p].ride, rideCode, outcome, ok)
    /\ pl' = [pl EXCEPT ![p].pc = "tail", ![p].code = rideCode]
    /\ UNCHANGED <<rides, ride_participants, payments, notifications, history,
                   stripe, cr, jn, wh, response, requests>>

\* createNotification, logUserAction and the response
PollTail(p, ok1, ok2) ==
    /\ pl[p].pc = "tail"
    /\ CanFail(<<ok1, ok2>>) /\ Failing(<<ok1, ok2>>)
    /\ createNotification(pl[p].user, "payment_received", ok1)
    /\ logUserAction(pl[p].user, "payment", ok2)
    /\ response' = Respond("poll", "200 completed", pl[p])
    /\ pl' = [pl EXCEPT ![p] = Idle]
    /\ UNCHANGED <<rides, ride_participants, payments, ride_codes,
                   stripe, cr, jn, wh, requests>>

\* ------------------------------------------------------------ POST /api/stripe/webhook
EventTypes == {"checkout.session.completed", "checkout.session.expired",
               "payment_intent.created"}
Signatures == {"valid", "invalid"}

\* stripe.webhooks.constructEvent: throws unless the signature verifies
constructEventAcceptsAll(sig) == TRUE
constructEvent(sig) == sig = "valid"

\* the events the provider signs: completed for a paid session, expired for an
\* expired one, each with the metadata of the session
Genuine(type, sessionId, rideId, userId) ==
    /\ stripe[sessionId] # NoRow
    /\ rideId = stripe[sessionId].rideId /\ userId = stripe[sessionId].userId
    /\ type = "checkout.session.completed" => stripe[sessionId].status = "complete"
    /\ type = "checkout.session.expired" => stripe[sessionId].status = "expired"

\* the events of a provider whose deliveries may be late or out of order: also
\* the expiry event of a session that it reports as paid
Unordered(type, sessionId, rideId, userId) ==
    /\ stripe[sessionId] # NoRow
    /\ rideId = stripe[sessionId].rideId /\ userId = stripe[sessionId].userId
    /\ type = "checkout.session.completed" => stripe[sessionId].status = "complete"
    /\ type = "checkout.session.expired" =>
           stripe[sessionId].status \in {"expired", "complete"}

\* update({status: "failed"}).eq("stripe_session_id", session.id)
FailPaymentDeletes(sessionId, ok) ==
    payments' = IF ok THEN [payments EXCEPT ![sessionId] = NoRow] ELSE payments
FailPayment(sessionId, ok) ==
    payments' = IF ok /\ payments[sessionId] # NoRow
        THEN [payments EXCEPT ![sessionId].status = "failed"]
        ELSE payments

\* constructEvent, then the select of the participant (completed), the update
\* of the payment (expired) or nothing (other events)
HookEvent(w, type, sessionId, rideId, userId, sig, ok) ==
    /\ Arrives(wh, w)
    /\ LET req == [Idle EXCEPT !.sid = sessionId, !.type = type, !.sig = sig]
       IN IF ~constructEvent(sig)
          THEN /\ ok
               /\ response' = Respond("webhook", "400 Webhook Error",
                                       [Idle EXCEPT !.sig = sig])
               /\ UNCHANGED <<payments, wh, faults>>
          ELSE IF type = "checkout.session.completed" /\ rideId # NoRide /\ userId # NoUser
          THEN /\ CanFail(<<ok>>) /\ Failing(<<ok>>)
               /\ LET found == SelectParticipant(rideId, userId, ok)
                  IN IF found = {}
                     THEN /\ response' = Respond("webhook", "200 received", req)
                          /\ UNCHANGED wh
                     ELSE /\ \E row \in found :
                               wh' = [wh EXCEPT ![w] = [req EXCEPT !.pc = "paid",
                                   !.ride = row.ride_id, !.user = row.user_id,
                                   !.row = row.id, !.due = row.amount_due,
                                   !.late = AlreadySettled(sessionId)]]
                          /\ UNCHANGED response
               /\ UNCHANGED payments
          ELSE IF type = "checkout.session.expired"
          THEN /\ CanFail(<<ok>>) /\ Failing(<<ok>>)
               /\ FailPayment(sessionId, ok)
               /\ response' = Respond("webhook", "200 received", req)
               /\ UNCHANGED wh
          ELSE /\ ok
               /\ response' = Respond("webhook", "200 received", req)
               /\ UNCHANGED <<payments, wh, faults>>
    /\ UNCHANGED <<rides, ride_participants, ride_codes, notifications, history,
                   stripe, cr, jn, pl>>

\* the update of the participant
HookMarkPaid(w, ok) ==
    /\ wh[w].pc = "paid"
    /\ CanFail(<<ok>>) /\ Failing(<<ok>>)
    /\ MarkPaid(wh[w].row, wh[w].sid, wh[w].due, ok)
    /\ wh' = [wh EXCEPT ![w].pc = "payment"]
    /\ UNCHANGED <<rides, payments, ride_codes, notifications, history,
                   stripe, cr, jn, pl, response, requests>>

\* the update of the payment
HookCompletePayment(w, ok) ==
    /\ wh[w].pc = "payment"
    /\ CanFail(<<ok>>) /\ Failing(<<ok>>)
    /\ CompletePayment(wh[w].sid, ok)
    /\ wh' = [wh EXCEPT ![w].pc = "code"]
    /\ UNCHANGED <<rides, ride_participants, ride_codes, notifications, history,
                   stripe, cr, jn, pl, response, requests>>

\* generateRideCode(6) and the upsert into ride_codes
HookUpsert(w, rideCode, outcome, ok) ==
    /\ wh[w].pc = "code"
    /\ CanFail(<<ok>>) /\ Failing(<<ok>>)
    /\ UpsertRideCode(wh[w].ride, rideCode, outcome, ok)
    /\ wh' = [wh EXCEPT ![w].pc = "tail", ![w].code = rideCode]
    /\ UNCHANGED <<rides, ride_participants, payments, notifications, history,
                   stripe, cr, jn, pl, response, requests>>

\* createNotification, logUserAction and the response
HookTail(w, ok1, ok2) ==
    /\ wh[w].pc = "tail"
    /\ CanFail(<<ok1, ok2>>) /\ Failing(<<ok1, ok2>>)
    /\ createNotification(wh[w].user, "payment_received", ok1)
    /\ logUserAction(wh[w].user, "payment", ok2)
    /\ response' = Respond("webhook", "200 received", wh[w])
    /\ wh' = [wh EXCEPT ![w] = Idle]
    /\ UNCHANGED <<rides, ride_participants, payments, ride_codes,
                   stripe, cr, jn, pl, requests>>

\* ------------------------------------------------------------ specifications
\* the requests of an environment: oks are the outcomes of the store calls,
\* rideIds the rides it creates, amounts the amounts its join requests name,
\* users the users that send join requests, late tells whether the provider's
\* expiry events may arrive late
Create(oks, rideIds) ==
    \/ \E c \in Slots, r \in rideIds : Free(cr, c) /\ NextRideId(r) /\
          \E u \in Creators \cup {NoUser}, n \in SeatChoices, p \in PriceChoices,
             code \in Codes, ok \in oks :
             CreateInsert(c, r, u, n, p, code, ok) /\ UNCHANGED gen
    \/ \E c \in Slots, ok \in oks : CreateCodes(c, ok) /\ UNCHANGED gen
    \/ \E c \in Slots, ok \in oks : CreateTail(c, ok) /\ UNCHANGED gen

JoinBy(oks, amounts, users) ==
    \/ \E j \in Slots : Free(jn, j) /\
          \E r \in RideIds \cup {NoRide}, u \in users \cup {NoUser},
             a \in amounts, ok \in oks : JoinSelect(j, r, u, a, ok) /\ UNCHANGED gen
    \/ \E j \in Slots, ok \in oks : JoinInsert(j, ok) /\ UNCHANGED gen
    \/ \E j \in Slots, ok \in oks : JoinUpdate(j, ok) /\ UNCHANGED gen
    \/ \E j \in Slots, ok \in oks : JoinTail(j, ok) /\ UNCHANGED gen

Join(oks, amounts) == JoinBy(oks, amounts, Users)

Provider(oks) ==
    \/ \E s \in SessionIds : NextSessionId(s) /\
          \E r \in RideIds \cup {NoRide}, u \in Users, a \in CheckoutAmounts,
             ok \in oks : Checkout(s, r, u, a, ok) /\ UNCHANGED gen
    \/ \E s \in SessionIds : StripePay(s) /\ UNCHANGED gen
    \/ \E s \in SessionIds : StripeExpire(s) /\ UNCHANGED gen

Poll(oks) ==
    \/ \E p \in Slots : Free(pl, p) /\
          \E s \in SessionIds, ok \in oks : PollSelect(p, s, ok) /\ UNCHANGED gen
    \/ \E p \in Slots, ok \in oks : PollMarkPaid(p, ok) /\ UNCHANGED gen
    \/ \E p \in Slots, ok \in oks : PollCompletePayment(p, ok) /\ UNCHANGED gen
    \/ \E p \in Slots, code \in Codes, o \in UpsertOutcomes, ok \in oks :
          PollUpsert(p, code, o, ok) /\ UNCHANGED gen
    \/ \E p \in Slots, ok1 \in oks, ok2 \in oks : PollTail(p, ok1, ok2) /\ UNCHANGED gen

Hook(oks, late) ==
    \/ \E w \in Slots : Free(wh, w) /\
          \E t \in EventTypes, s \in SessionIds, r \in RideIds, u \in Users,
             sig \in Signatures, ok \in oks :
             /\ sig = "valid" => IF late THEN Unordered(t, s, r, u)
                                 ELSE Genuine(t, s, r, u)
             /\ HookEvent(w, t, s, r, u, sig, ok)
             /\ UNCHANGED gen
    \/ \E w \in Slots, ok \in oks : HookMarkPaid(w, ok) /\ UNCHANGED gen
    \/ \E w \in Slots, ok \in oks : HookCompletePayment(w, ok) /\ UNCHANGED gen
    \/ \E w \in Slots, code \in Codes, o \in UpsertOutcomes, ok \in oks :
          HookUpsert(w, code, o, ok) /\ UNCHANGED gen
    \/ \E w \in Slots, ok1 \in oks, ok2 \in oks : HookTail(w, ok1, ok2) /\ UNCHANGED gen

\* a store whose calls succeed, one ride
Next ==
    \/ Create({TRUE}, {1})
    \/ Join({TRUE}, AmountChoices)
    \/ Provider({TRUE})
    \/ Poll({TRUE})
    \/ Hook({TRUE}, FALSE)

Spec == Init /\ [][Next]_vars

\* a store whose calls may fail
NextFaulty ==
    \/ Create(BOOLEAN, {1})
    \/ Join(BOOLEAN, AmountChoices)
    \/ Provider(BOOLEAN)
    \/ Poll(BOOLEAN)
    \/ Hook(BOOLEAN, FALSE)

SpecFaulty == Init /\ [][NextFaulty]_vars

\* a provider whose expiry events may arrive late
NextUnordered ==
    \/ Create({TRUE}, {1})
    \/ Join({TRUE}, AmountChoices)
    \/ Provider({TRUE})
    \/ Poll({TRUE})
    \/ Hook({TRUE}, TRUE)

SpecUnordered == Init /\ [][NextUnordered]_vars

\* rides and join requests that may name their amount
NextBooking ==
    \/ Create({TRUE}, {1})
    \/ Join({TRUE}, RequestedAmounts)

SpecBooking == Init /\ [][NextBooking]_vars

\* calls of generateRideCode
NextCode ==
    \/ gen.pc = "none" /\
          \E length \in 0..MaxLength, random \in [1..MaxLength -> RandomValues] :
             GenerateCall(length, random)
    \/ GenerateReturn

SpecCode == Init /\ [][NextCode]_vars

\* the creation of several rides, in a store whose calls succeed: an insert
\* into rides is refused only when its ride_code is the one of another ride
NextRides ==
    \/ Create({TRUE}, RideIds)

SpecRides == Init /\ [][NextRides]_vars

\* rides that their owner completes or cancels, and join requests
NextLifecycle ==
    \/ Create({TRUE}, {1})
    \/ Join({TRUE}, AmountChoices)
    \/ \E r \in RideIds, status \in FinalStatuses : UpdateOwnRide(r, status)

SpecLifecycle == Init /\ [][NextLifecycle]_vars

\* join requests of three users
NextSeats ==
    \/ Create({TRUE}, {1})
    \/ JoinBy({TRUE}, AmountChoices, Riders)

SpecSeats == Init /\ [][NextSeats]_vars

\* ------------------------------------------------------------ properties
Participants(r) == {row \in ride_participants : row.ride_id = r}
Created(r) == rides[r] # NoRow

\* C1: a ride never has more participant rows than total_seats, under any
\* interleaving of join requests of distinct users
C1_NoOverbooking ==
    \A r \in RideIds :
        Created(r) /\ rides[r].total_seats > 0 =>
            Cardinality(Participants(r)) <= rides[r].total_seats

\* C2: of the concurrent join requests of distinct users that found
\* seats_left = 1 on a ride, one inserts a participant row and the others
\* insert none
C2_OneWinner ==
    \A i, j \in Slots :
        ( /\ i # j /\ jn[i].pc # "idle" /\ jn[j].pc # "idle"
          /\ jn[i].ride = jn[j].ride /\ jn[i].user # jn[j].user
          /\ jn[i].seen = 1 /\ jn[j].seen = 1 )
        => ~(jn[i].row # 0 /\ jn[j].row # 0)

\* C3: a poll or webhook delivery for a session that was settled by a handler
\* that has finished changes neither the participant, nor the notifications,
\* nor the history (the ride code, which the claim names too, is left out: the
\* upsert of the second delivery is rerun as well, and what it does to the row
\* depends on the store)
C3_ResettleIsNoop ==
    [][(\E i \in Slots : \/ pl[i].late /\ pl'[i] # pl[i]
                         \/ wh[i].late /\ wh'[i] # wh[i])
       => UNCHANGED <<ride_participants, notifications, history>>]_vars

\* the handlers that have applied the settlement of session s
Applying(h, s) == {i \in Slots : h[i].sid = s /\ h[i].pc \in {"payment", "code", "tail"}}

\* C4: of a poll and a webhook handler that run concurrently for one session,
\* one applies the settlement and the other short-circuits
C4_OneSettlement ==
    \A s \in SessionIds : Applying(pl, s) = {} \/ Applying(wh, s) = {}

\* C5: 0 <= seats_left <= total_seats for every ride created with a positive
\* total_seats
C5_SeatsInRange ==
    \A r \in RideIds :
        Created(r) /\ rides[r].total_seats > 0 =>
            0 <= rides[r].seats_left /\ rides[r].seats_left <= rides[r].total_seats

\* two joins and a settlement have acted on a ride of two seats
C5_Witness ==
    \E r \in RideIds :
        /\ Created(r) /\ rides[r].total_seats = 2 /\ rides[r].seats_left = 0
        /\ \E row \in Participants(r) : row.paid

\* C6: the number of participant rows of a ride is total_seats - seats_left
\* (stated for the states in which no join is between its two writes)
C6_SeatsAccounting ==
    (\A j \in Slots : jn[j].pc \notin {"update"}) =>
        \A r \in RideIds :
            Created(r) =>
                Cardinality(Participants(r)) = rides[r].total_seats - rides[r].seats_left

\* C7: a step of a poll or webhook handler for a session that has no payments
\* row changes no payments, ride_participants or ride_codes row
C7_UnknownSessionNoEffect ==
    [][(\E i \in Slots :
          \/ pl[i].pc # "idle" /\ pl'[i] # pl[i] /\ payments[pl[i].sid] = NoRow
          \/ wh[i].pc # "idle" /\ wh'[i] # wh[i] /\ payments[wh[i].sid] = NoRow)
       => UNCHANGED <<payments, ride_participants, ride_codes>>]_vars

\* a step that serves a webhook delivery whose signature does not verify
ForgedStep ==
    \/ \E i \in Slots : wh[i].sig = "invalid" /\ wh'[i] # wh[i]
    \/ \E i \in Slots : wh[i].pc = "idle" /\ wh'[i].sig = "invalid"
    \/ /\ requests' = requests + 1 /\ InFlight' = InFlight
       /\ response'.op = "webhook" /\ response'.sig = "invalid"

\* C8: a webhook delivery whose signature does not verify is answered 400 and
\* changes no table
C8_ForgedRejected ==
    [][ForgedStep => /\ UNCHANGED db
                     /\ wh' = wh
                     /\ response'.status = "400 Webhook Error"]_vars

\* a forged delivery was rejected while a participant row was there to change
C8_Witness ==
    /\ response.op = "webhook" /\ response.sig = "invalid"
    /\ response.status = "400 Webhook Error"
    /\ \E row \in ride_participants : ~row.paid

\* C9: a join request answered with an error has added no participant row and
\* has not changed seats_left
C9_FailedJoinLeavesNothing ==
    response.op = "join" /\ IsError(response.status) =>
        response.row = 0 /\ ~response.updated

\* C10: a join handler that has finished has committed both the participant
\* insert and the seats_left update, or neither
C10_InsertAndDecrementTogether ==
    response.op = "join" => (response.row # 0 <=> response.updated)

\* C11: a failing notification or history write does not fail the operation:
\* a join that has inserted its participant row and updated seats_left, and a
\* settlement that has updated participant and payment, answer with success
C11_SideEffectsNeverFail ==
    /\ response.op = "join" /\ response.row # 0 /\ response.updated
           => response.status = "200 success"
    /\ response.op \in {"poll", "webhook"} /\ response.row # 0
           => response.status \in {"200 completed", "200 received"}

\* no other join request is being served
Alone(j) == \A k \in Slots : k # j => jn[k].pc = "idle"

\* C12: a join of a user without a participant row, on a ride where it read
\* seats_left = n > 0, with no other join in flight, inserts one row with
\* paid = FALSE and amount_due = the requested amount or else the price, sets
\* seats_left to n - 1 and answers with success and the participant; a join
\* that reads seats_left = 0 is refused and changes no table
C12_JoinSucceeds ==
    [][\A j \in Slots :
        /\ ( /\ jn[j].pc = "insert" /\ jn'[j] # jn[j] /\ Alone(j)
             /\ Participants(jn[j].ride) \cap
                    {row \in ride_participants : row.user_id = jn[j].user} = {} )
           => \E row \in ride_participants' :
                 /\ ride_participants' = ride_participants \cup {row}
                 /\ row \notin ride_participants
                 /\ row.ride_id = jn[j].ride /\ row.user_id = jn[j].user
                 /\ ~row.paid
                 /\ row.amount_due = IF jn[j].amt # 0 THEN jn[j].amt
                                     ELSE rides[jn[j].ride].price_per_seat
        /\ (jn[j].pc = "update" /\ jn'[j] # jn[j] /\ Alone(j))
           => rides'[jn[j].ride].seats_left = jn[j].seen - 1
        /\ (jn[j].pc = "tail" /\ jn'[j] # jn[j] /\ Alone(j))
           => response'.status = "200 success" /\ response'.row = jn[j].row
        /\ ( /\ jn[j].pc = "idle" /\ requests' = requests + 1
             /\ response'.op = "join" /\ response'.seen = 0
             /\ response'.status = "400 No seats available" )
           => UNCHANGED db
      ]_vars

\* handler x finishes a settlement (y is the handler after the step), for a
\* session that has a payments row, as the first for its user: then the
\* participant is paid in full, the payment is completed with the provider's
\* payment intent, the ride has a ride code and the user one notification
FirstSettlement(x, y) ==
    ( /\ x.pc = "tail" /\ y.pc = "idle"
      /\ payments[x.sid] # NoRow
      /\ notifications[<<x.user, "payment_received">>] = 0 )
    => /\ \E row \in ride_participants' :
             /\ row.id = x.row /\ row.ride_id = x.ride /\ row.user_id = x.user
             /\ row.paid /\ row.amount_paid = row.amount_due
       /\ payments'[x.sid].status = "completed"
       /\ payments'[x.sid].stripe_payment_intent_id = x.sid
       /\ \E code \in ride_codes' : code.ride_id = x.ride
       /\ notifications'[<<x.user, "payment_received">>] = 1

\* C13: the first completion signal (poll or webhook) for a session with a
\* payments row and a participant leaves the participant with paid = TRUE and
\* amount_paid = amount_due, the payment completed with the payment intent
\* recorded, a ride_codes row for the ride and one payment_received
\* notification for the user
C13_FirstSettlement ==
    [][\A i \in Slots : /\ FirstSettlement(pl[i], pl'[i])
                        /\ FirstSettlement(wh[i], wh'[i])]_vars

\* a first settlement has finished
C13_Witness ==
    \E s \in SessionIds, row \in ride_participants :
        /\ payments[s] # NoRow /\ payments[s].status = "completed"
        /\ row.paid /\ row.stripe_session_id = s
        /\ row.amount_due > 0 /\ row.amount_paid = row.amount_due
        /\ notifications[<<row.user_id, "payment_received">>] = 1
        /\ response.op \in {"poll", "webhook"} /\ response.row = row.id

\* a completion signal is answered by the step that receives it: the select
\* of the participant returned no row
NoParticipantStep ==
    /\ requests' = requests + 1 /\ InFlight' = InFlight
    /\ \/ response'.op = "poll" /\ response'.status = "200 completed"
       \/ /\ response'.op = "webhook" /\ response'.status = "200 received"
          /\ response'.type = "checkout.session.completed"

\* C14: a completion signal for a session that has a payments row and no
\* participant row marks the payment completed and adds no ride code, no
\* notification and no history entry
C14_MissingParticipant ==
    [][(NoParticipantStep /\ payments[response'.sid] # NoRow)
       => /\ payments'[response'.sid].status = "completed"
          /\ UNCHANGED <<ride_codes, notifications, history>>]_vars

\* C15: a payment that is completed or failed keeps its status, whatever
\* completion and expiry events follow; an expiry event changes the status
\* of a pending payment only
C15_OneTerminalState ==
    [][\A s \in SessionIds :
          payments[s] # NoRow /\ payments[s].status \in {"completed", "failed"}
              => payments'[s].status = payments[s].status]_vars

\* a verified checkout.session.expired event is served
ExpiredStep ==
    /\ requests' = requests + 1 /\ InFlight' = InFlight
    /\ response'.op = "webhook" /\ response'.status = "200 received"
    /\ response'.type = "checkout.session.expired"

\* C16: a session-expired event changes nothing but the status of the
\* payments row of its session: rides (seats_left), ride_participants,
\* ride_codes, notifications and history are left as they are
C16_ExpiredFrame ==
    [][ExpiredStep =>
          /\ UNCHANGED <<rides, ride_participants, ride_codes, notifications, history>>
          /\ \A s \in SessionIds :
                IF s = response'.sid /\ payments[s] # NoRow
                THEN /\ payments'[s] # NoRow
                     /\ payments'[s] = [payments[s] EXCEPT
                                            !.status = payments'[s].status]
                ELSE payments'[s] = payments[s]]_vars

\* an expiry event has failed the payment of a user who holds a seat
C16_Witness ==
    /\ response.op = "webhook" /\ response.type = "checkout.session.expired"
    /\ response.sid \in SessionIds /\ payments[response.sid] # NoRow
    /\ payments[response.sid].status = "failed"
    /\ \E row \in ride_participants :
          /\ row.ride_id = payments[response.sid].ride_id
          /\ row.user_id = payments[response.sid].user_id
          /\ rides[row.ride_id].seats_left < rides[row.ride_id].total_seats

\* C17: in every state, a completed payment of (ride, user) whose participant
\* row exists goes with paid = TRUE on that row, and a participant marked paid
\* by a session goes with a completed payment of that session
C17_SettlementAtomic ==
    /\ \A s \in SessionIds :
          payments[s] # NoRow /\ payments[s].status = "completed" =>
              \A row \in ride_participants :
                  row.ride_id = payments[s].ride_id /\ row.user_id = payments[s].user_id
                      => row.paid
    /\ \A row \in ride_participants :
          row.paid /\ row.stripe_session_id \in SessionIds =>
              /\ payments[row.stripe_session_id] # NoRow
              /\ payments[row.stripe_session_id].status = "completed"

\* the 36 characters
Alphabet == {"A", "B", "C", "D", "E", "F", "G", "H", "I", "J", "K", "L", "M",
             "N", "O", "P", "Q", "R", "S", "T", "U", "V", "W", "X", "Y", "Z",
             "0", "1", "2", "3", "4", "5", "6", "7", "8", "9"}

\* C18: generateRideCode(L) returns, for every L >= 0 and every outcome of
\* the random source, a string of L characters, each an uppercase letter or
\* a digit
C18_CodeShape ==
    gen.pc = "done" =>
        /\ Len(gen.code) = gen.length
        /\ \A i \in 1..Len(gen.code) : gen.code[i] \in Alphabet

\* a code of the greatest length that ends in the last character
C18_Witness ==
    /\ gen.pc = "done" /\ gen.length = MaxLength
    /\ Len(gen.code) = MaxLength /\ gen.code[MaxLength] = "9"

\* the insert into rides of a create request is refused: the handler answers
\* 500 in the step that receives the request
InsertRefused ==
    /\ requests' = requests + 1 /\ InFlight' = InFlight
    /\ response'.op = "create" /\ response'.status = "500 Failed to create ride"

\* C19: a create request whose generated code is the ride_code of another
\* ride does not fail (a new code is generated and the insert tried again)
C19_CollisionRetried ==
    [][(\E r \in RideIds : Created(r)) => ~InsertRefused]_vars

\* the participant rows of user u on ride r
RowsOf(r, u) == {row \in ride_participants : row.ride_id = r /\ row.user_id = u}

\* C20: there is at most one participant row per (ride, user), and the join
\* request of a user who has a row for the ride fails and leaves seats_left
\* and the participant rows as they are
C20_JoinOnce ==
    [][/\ \A r \in RideIds, u \in Users : Cardinality(RowsOf(r, u)') <= 1
       /\ \A j \in Slots :
             ( /\ jn[j].pc # "idle" /\ jn[j].row = 0 /\ jn'[j] # jn[j]
               /\ RowsOf(jn[j].ride, jn[j].user) # {} )
             => /\ jn'[j].pc = "idle"
                /\ response'.op = "join" /\ IsError(response'.status)
                /\ UNCHANGED <<rides, ride_participants>>]_vars

\* a join was refused by the unique constraint, no store call having failed
C20_Witness ==
    /\ response.op = "join" /\ response.status = "500 Failed to join ride"
    /\ response.row = 0 /\ response.seen > 0
    /\ faults = 0
    /\ \E r \in RideIds, u \in Users : Cardinality(RowsOf(r, u)) = 1

\* C21: a join request that reads a ride whose status is not active, with
\* seats_left > 0, fails, inserts no participant row and leaves seats_left
\* as it is
C21_InactiveRideRefused ==
    [][\A j \in Slots :
          ( /\ jn[j].pc # "idle" /\ jn'[j] # jn[j]
            /\ jn[j].status # "active" /\ jn[j].seen > 0 )
          => /\ jn'[j].pc = "idle"
             /\ response'.op = "join" /\ IsError(response'.status)
             /\ UNCHANGED <<rides, ride_participants>>]_vars

\* the ride_codes rows of ride r
CodesOf(r) == {row \in ride_codes : row.ride_id = r}

\* handler x has run its upsert (y is the handler after the step): the row of
\* the ride holds the code generated by x
CodeReplaced(x, y) ==
    x.pc = "code" /\ y.pc = "tail" =>
        [ride_id |-> x.ride, code |-> y.code] \in ride_codes'

\* C22: a ride has at most one ride_codes row, and after the upsert of a
\* settlement that row holds the code generated by this settlement
C22_CodeReplaced ==
    [][/\ \A r \in RideIds : Cardinality(CodesOf(r)') <= 1
       /\ \A i \in Slots : /\ CodeReplaced(pl[i], pl'[i])
                           /\ CodeReplaced(wh[i], wh'[i])]_vars

\* seats_left of a created ride changes only in the update of a join handler
OnlyJoinWritesSeats ==
    [][\A r \in RideIds :
          Created(r) /\ rides'[r].seats_left # rides[r].seats_left =>
              \E j \in Slots : /\ jn[j].pc = "update" /\ jn'[j].pc = "tail"
                              /\ jn[j].ride = r]_vars

\* C23: once a ride is created, every step that changes its seats_left is
\* the update of a join handler and lowers it by one
C23_SeatsWrittenByJoin ==
    [][\A r \in RideIds :
          Created(r) /\ rides'[r].seats_left # rides[r].seats_left =>
              /\ \E j \in Slots : /\ jn[j].pc = "update" /\ jn'[j].pc = "tail"
                                  /\ jn[j].ride = r
              /\ rides'[r].seats_left = rides[r].seats_left - 1]_vars

\* a poll for session s arrives
PollStep(s) ==
    /\ requests' # requests
    /\ \/ \E p \in Slots : pl'[p] # pl[p] /\ pl'[p].sid = s
       \/ /\ UNCHANGED <<cr, jn, pl, wh>>
          /\ response'.op = "poll" /\ response'.sid = s

\* the step marks a participant paid, completes a payment, replaces a ride
\* code, or records a received payment
SettlementEffect ==
    \/ \E row \in ride_participants' : row.paid /\ row \notin ride_participants
    \/ \E s \in SessionIds : /\ payments'[s] # payments[s] /\ payments'[s] # NoRow
                             /\ payments'[s].status = "completed"
    \/ ride_codes' # ride_codes /\ UNCHANGED cr
    \/ \E u \in Riders :
          \/ notifications'[<<u, "payment_received">>] # notifications[<<u, "payment_received">>]
          \/ history'[<<u, "payment">>] # history[<<u, "payment">>]

\* the step is taken by a poll of a paid session or by a webhook handler of a
\* verified checkout.session.completed event
SettlementStep ==
    \E i \in Slots :
       \/ /\ pl[i].pc # "idle" /\ pl'[i] # pl[i]
          /\ stripe[pl[i].sid] # NoRow /\ stripe[pl[i].sid].payment_status = "paid"
       \/ /\ wh[i].pc # "idle" /\ wh'[i] # wh[i]
          /\ wh[i].sig = "valid" /\ wh[i].type = "checkout.session.completed"

\* C24: a poll for a session that the provider does not report as paid
\* changes no table, starts no settlement and answers the provider's
\* payment_status; a settlement effect happens only in a step of a poll of a
\* paid session or of a webhook handler of a verified
\* checkout.session.completed event
C24_UnpaidPollIsReadOnly ==
    [][/\ \A s \in SessionIds :
            ( /\ PollStep(s)
              /\ stripe[s] # NoRow /\ stripe[s].payment_status # "paid" )
            => /\ UNCHANGED <<db, stripe, pl>>
               /\ response'.op = "poll"
               /\ response'.status = "200 " \o stripe[s].payment_status
       /\ SettlementEffect => SettlementStep]_vars

\* a poll of an unpaid session has been answered while the participant is
\* unpaid and the payment pending
C24_Witness ==
    /\ response.op = "poll" /\ response.status = "200 unpaid"
    /\ stripe[response.sid] # NoRow /\ stripe[response.sid].payment_status = "unpaid"
    /\ payments[response.sid] # NoRow /\ payments[response.sid].status = "pending"
    /\ \E row \in ride_participants :
          /\ row.ride_id = stripe[response.sid].rideId
          /\ row.user_id = stripe[response.sid].userId
          /\ ~row.paid

====
